---------------------------- MODULE Spec2Model ----------------------------
(***************************************************************************)
(* Verification model of HeterogeneousMedium (src/src/medium/              *)
(* heterogeneous.cpp): composite Simpson integration of the density along  *)
(* a ray, inversion of that integral by Newton-Bisection, Woodcock         *)
(* tracking, and the three Medium queries built on them.                   *)
(*                                                                         *)
(* Arithmetic.  The code's type Float is modelled as binary fixed point    *)
(* with 20 fractional bits: the integer n stands for n / 2^20, every       *)
(* product and quotient is rounded to the nearest such number, and the     *)
(* three special values of IEEE arithmetic (+infinity, -infinity, NaN)     *)
(* are kept.  One unit is 9.54e-7, so the code's tolerance 1e-6 is         *)
(* between one and two units, which is the relation single precision has   *)
(* to it for values between 8 and 16.                                      *)
(*                                                                         *)
(* Geometry.  Rays run along the x axis (direction (1,0,0)); a point is    *)
(* <<x, y>>, the y coordinate deciding only whether the ray's line passes  *)
(* through the bounding box of the density volume.                         *)
(***************************************************************************)
EXTENDS Integers, Sequences, FiniteSets, TLC

----------------------------------------------------------------------------
(* Float: fixed point, 20 fractional bits, with the IEEE special values.   *)

FracBits == 20
One      == 2^FracBits     \* 1.0f
Half     == One \div 2     \* 0.5f
Limb     == 2^10           \* a product is formed in two limbs of 10 bits
PInf     == 2^30           \* std::numeric_limits<Float>::infinity()
NInf     == -PInf
NaN      == PInf + 1       \* the result of 0/0, 0 * inf and inf - inf
Million  == 1000 * 1000

Abs(n) == IF n < 0 THEN -n ELSE n
Sgn(n) == IF n < 0 THEN -1 ELSE 1

IsNaN(a) == a = NaN
IsInf(a) == a = PInf \/ a = NInf
IsFin(a) == ~IsNaN(a) /\ ~IsInf(a)

\* A magnitude that no longer fits becomes an infinity.
Sat(n) == IF n >= PInf THEN PInf ELSE IF n <= NInf THEN NInf ELSE n

FNeg(a) == IF IsNaN(a) THEN NaN ELSE -a

FAdd(a, b) ==
    IF IsNaN(a) \/ IsNaN(b) THEN NaN
    ELSE IF IsInf(a) THEN (IF IsInf(b) /\ a # b THEN NaN ELSE a)
    ELSE IF IsInf(b) THEN b
    ELSE Sat(a + b)

FSub(a, b) == FAdd(a, FNeg(b))

\* round(a * b / 2^20) for magnitudes a, b < 2^30, formed in limbs of 2^10
\* so that no intermediate value leaves the 32-bit range TLC computes in.
MulMag(a, b) ==
    LET a1 == a \div Limb   a0 == a % Limb
        b1 == b \div Limb   b0 == b % Limb
    IN  IF a1 > 0 /\ b1 > (PInf \div a1) THEN PInf
        ELSE LET low  == (a0 * b0 + Half) \div Limb
                 m1   == a1 * b0
                 m2   == a0 * b1
                 mid  == (m1 \div Limb) + (m2 \div Limb)
                         + (((m1 % Limb) + (m2 % Limb) + low) \div Limb)
             IN  IF a1 * b1 >= PInf - mid THEN PInf ELSE a1 * b1 + mid

FMul(a, b) ==
    IF IsNaN(a) \/ IsNaN(b) THEN NaN
    ELSE IF IsInf(a) \/ IsInf(b)
         THEN (IF a = 0 \/ b = 0 THEN NaN
               ELSE IF Sgn(a) = Sgn(b) THEN PInf ELSE NInf)
    ELSE LET m == MulMag(Abs(a), Abs(b))
         IN  IF Sgn(a) = Sgn(b) THEN m ELSE -m

\* Long division, one bit of the quotient at a time: r < b throughout.
RECURSIVE DivBits(_, _, _, _)
DivBits(r, b, k, q) ==
    IF k = 0 THEN (IF 2 * r >= b THEN q + 1 ELSE q)
    ELSE IF 2 * r >= b THEN DivBits(2 * r - b, b, k - 1, 2 * q + 1)
         ELSE DivBits(2 * r, b, k - 1, 2 * q)

\* round(a * 2^20 / b) for magnitudes a, b < 2^30, b > 0.
DivMag(a, b) ==
    IF a \div b >= Limb THEN PInf
    ELSE DivBits(a % b, b, FracBits, a \div b)

FDiv(a, b) ==
    IF IsNaN(a) \/ IsNaN(b) THEN NaN
    ELSE IF IsInf(a) THEN (IF IsInf(b) THEN NaN
                           ELSE IF Sgn(a) = Sgn(b) THEN PInf ELSE NInf)
    ELSE IF IsInf(b) THEN 0
    ELSE IF b = 0 THEN (IF a = 0 THEN NaN ELSE IF a > 0 THEN PInf ELSE NInf)
    ELSE LET m == DivMag(Abs(a), Abs(b))
         IN  IF Sgn(a) = Sgn(b) THEN m ELSE -m

\* Comparisons: every comparison with a NaN is false.
FLt(a, b) == ~IsNaN(a) /\ ~IsNaN(b) /\ a < b
FLe(a, b) == ~IsNaN(a) /\ ~IsNaN(b) /\ a <= b
FGt(a, b) == FLt(b, a)
FGe(a, b) == FLe(b, a)
FEq(a, b) == ~IsNaN(a) /\ ~IsNaN(b) /\ a = b

\* std::max / std::min: (a < b) ? b : a and (b < a) ? b : a.
FMax(a, b) == IF FLt(a, b) THEN b ELSE a
FMin(a, b) == IF FLt(b, a) THEN b ELSE a
FAbs(a) == IF IsNaN(a) THEN NaN ELSE Abs(a)

\* An integer constant of the code (3, 4, 6, a loop counter) as a Float.
FInt(k) == Sat(k * One)


\* a * 1e-6f, rounded to a Float.
MulMicro(a) ==
    IF IsNaN(a) THEN NaN
    ELSE IF IsInf(a) THEN a
    ELSE Sgn(a) * ((Abs(a) + (Million \div 2)) \div Million)

\* a < 1e-6f, for a >= 0 (1e-6 lies between one and two units).
LtMicro(a) == IsFin(a) /\ a < Limb /\ a * Million < One

\* std::ceil, and the conversion (uint32_t) of a finite value >= 0.
FCeil(a) == IF ~IsFin(a) THEN a ELSE -(((-a) \div One) * One)
ToUInt32(a) == a \div One

Third == FDiv(One, FInt(3))      \* (1.0f / 3.0f)
Sixth == FDiv(One, FInt(6))      \* (1.0f / 6.0f)

----------------------------------------------------------------------------
(* Points, vectors and rays.                                               *)

PAdd(p, v) == <<FAdd(p[1], v[1]), FAdd(p[2], v[2])>>
VScale(v, s) == <<FMul(v[1], s), FMul(v[2], s)>>
\* Point::operator==: all components compare equal.
PEq(p, q) == FEq(p[1], q[1]) /\ FEq(p[2], q[2])

\* Every ray of the model has the direction (1, 0).
RayD == <<One, 0>>
\* Ray::operator(): o + t * d.
RayAt(ray, t) == PAdd(<<ray.ox, ray.oy>>, VScale(RayD, t))

----------------------------------------------------------------------------
(* std::exp and std::log.                                                  *)

Ln2 == 726817                    \* log(2) = 0.693147

\* 1 - r/j * (1 - r/(j+1) * ( ... )): the series of exp(-r), 0 <= r < log 2.
RECURSIVE ExpSeries(_, _)
ExpSeries(r, j) ==
    IF j > 9 THEN One
    ELSE FSub(One, FMul(FDiv(r, FInt(j)), ExpSeries(r, j + 1)))

\* exp(-y) for a finite y >= 0: 2^-k * exp(-r) with y = k log 2 + r.
ExpNeg(y) ==
    LET k == y \div Ln2
    IN  IF k > FracBits THEN 0
        ELSE (ExpSeries(y % Ln2, 1) + (2^k \div 2)) \div (2^k)

\* std::exp
FExp(a) ==
    IF IsNaN(a) THEN NaN
    ELSE IF a = PInf THEN PInf
    ELSE IF a = NInf THEN 0
    ELSE IF a <= 0 THEN ExpNeg(-a)
    ELSE FDiv(One, ExpNeg(a))

\* The values Sampler::next1D returns in the model: 0, 1/2, 15/16 and
\* 1 - 2^-16, all in [0, 1).
Xi == {0, Half, 15 * (One \div 16), One - 16}

\* std::log(1 - xi) for the values of Xi.
Log1m(xi) ==
    CASE xi = 0 -> 0
      [] xi = Half -> -726817
      [] xi = 15 * (One \div 16) -> -2907270
      [] xi = One - 16 -> -11629080

----------------------------------------------------------------------------
(* The medium's state and the state of the query in progress.              *)

VARIABLES
    m_method,             \* "simpson" (ESimpsonQuadrature) or "woodcock"
    m_stepSize,           \* Float > 0
    m_densityMultiplier,  \* Float >= 0
    m_density,            \* the density volume: cell -> Float
    m_albedo,             \* the albedo volume: one Float everywhere
    m_maxDensity,
    m_invMaxDensity,
    m_anisotropicMedium,
    m_orientation,        \* the orientation volume: cell -> Vector
    scene,                \* what the constructor and addChild were given
    pc,                   \* "unconfigured", "failed" (configure threw),
                          \* "idle", "tracking" (a Woodcock loop runs), "done"
    op,                   \* the query that runs or ran last
    ray,                  \* its ray
    hasSampler,           \* sampler != NULL
    draws,                \* the calls of sampler->next1D() it made
    desired,              \* desiredDensity
    mRec0,                \* the caller's MediumSamplingRecord on entry
    mRec,                 \* the MediumSamplingRecord
    inv,                  \* the reference parameters of invertDensityIntegral
    ret,                  \* the value returned
    fatal,                \* Log(EError, ...) was reached
    loc,                  \* the locals of a Woodcock loop
    peer                  \* a sampleDistance call of a second thread

cfgVars == <<m_method, m_stepSize, m_densityMultiplier, m_density, m_albedo,
             m_maxDensity, m_invMaxDensity, m_anisotropicMedium,
             m_orientation, scene>>
callVars == <<pc, op, ray, hasSampler, draws, desired, mRec0, mRec, inv,
              ret, fatal, loc>>
vars == <<cfgVars, callVars, peer>>

\* The density volume has NCells unit cells along x and one along y.
NCells == 2
Cells == 0 .. (NCells - 1)

\* m_densityAABB = m_density->getAABB().
AABBMin == <<0, 0>>
AABBMax == <<FInt(NCells), One>>

\* AABB::rayIntersect: the slab test on the ray's line (ray.mint and
\* ray.maxt play no part); along y the direction is 0, along x it is 1.
SlabX(t1, t2) ==
    [hit |-> ~FGt(FMax(NInf, FMin(t1, t2)), FMin(PInf, FMax(t1, t2))),
     nearT |-> FMax(NInf, FMin(t1, t2)),
     farT |-> FMin(PInf, FMax(t1, t2))]

rayIntersect(r) ==
    IF FLt(r.oy, AABBMin[2]) \/ FGt(r.oy, AABBMax[2])
    THEN [hit |-> FALSE, nearT |-> NInf, farT |-> PInf]
    ELSE SlabX(FMul(FSub(AABBMin[1], r.ox), One),
               FMul(FSub(AABBMax[1], r.ox), One))

\* VolumeDataSource::lookupFloat: the value of the cell holding p, 0 outside
\* the volume's box.
lookupFloat(p) ==
    IF ~IsFin(p[1]) \/ ~IsFin(p[2]) THEN 0
    ELSE IF p[1] < AABBMin[1] \/ p[1] > AABBMax[1]
            \/ p[2] < AABBMin[2] \/ p[2] > AABBMax[2] THEN 0
    ELSE IF p[1] \div One >= NCells THEN m_density[NCells - 1]
    ELSE m_density[p[1] \div One]

\* VolumeDataSource::lookupVector on the orientation volume, cell by cell
\* as lookupFloat.
lookupVector(p) ==
    IF ~IsFin(p[1]) \/ ~IsFin(p[2]) THEN <<0, 0>>
    ELSE IF p[1] < AABBMin[1] \/ p[1] > AABBMax[1]
            \/ p[2] < AABBMin[2] \/ p[2] > AABBMax[2] THEN <<0, 0>>
    ELSE IF p[1] \div One >= NCells THEN m_orientation[NCells - 1]
    ELSE m_orientation[p[1] \div One]

Dot(v, w) == FAdd(FMul(v[1], w[1]), FMul(v[2], w[2]))

\* m_phaseFunction->sigmaDir(cosTheta): 1 - cosTheta^2/2, at most
\* sigmaDirMax.
SigmaDir(cosTheta) == FSub(One, FMul(Half, FMul(cosTheta, cosTheta)))

\* if (m_anisotropicMedium && density != 0): the orientation is looked up.
ReadsOrientation(density) == m_anisotropicMedium /\ density # 0

\* Anisotropic with the density returned where the orientation is zero.
Anisotropic_ZeroKept(density, orientation, d) ==
    IF orientation # <<0, 0>>
    THEN FMul(density, SigmaDir(Dot(d, orientation)))
    ELSE density

\* if (!orientation.isZero()) density *= sigmaDir(dot(d, orientation));
\* else return 0;
Anisotropic(density, orientation, d) ==
    IF orientation # <<0, 0>>
    THEN FMul(density, SigmaDir(Dot(d, orientation)))
    ELSE 0

LookupDirectional(density, p, d) ==
    IF ReadsOrientation(density)
    THEN Anisotropic(density, lookupVector(p), d)
    ELSE density

\* HeterogeneousMedium::lookupDensity.
lookupDensity(p, d) == LookupDirectional(lookupFloat(p), p, d)

\* The largest absolute coordinate of the two end points.
MaxComp(p, pLast) ==
    FMax(FMax(FMax(FMax(0, FAbs(p[1])), FAbs(pLast[1])),
              FAbs(p[2])), FAbs(pLast[2]))

\* ClipTo without maxt = std::min(maxt, ray.maxt).
ClipTo_NoMax(r, isect) ==
    [hit |-> isect.hit, mint |-> FMax(isect.nearT, r.mint),
     maxt |-> isect.farT]

\* The segment both integrators work on: rayIntersect, then
\* mint = std::max(mint, ray.mint) and maxt = std::min(maxt, ray.maxt).
ClipTo(r, isect) ==
    [hit |-> isect.hit, mint |-> FMax(isect.nearT, r.mint),
     maxt |-> FMin(isect.farT, r.maxt)]
Clip(r) == ClipTo(r, rayIntersect(r))

\* if (length < 1e-6f * maxComp): the segment is ignored as degenerate.
Degenerate(length, p, pLast) == FLt(length, MulMicro(MaxComp(p, pLast)))

\* -std::log(Epsilon), Epsilon = 1e-4f: 9.210340.
StopAfterDensity == 9657742

----------------------------------------------------------------------------
(* integrateDensity                                                        *)

\* The body of the for loop from the lookup on: d1 is integratedDensity
\* after the lookup at p, next is p + increment.
RECURSIVE IntegrateLoop(_, _, _, _, _, _, _)

\* IntegrateBody with the early exit left out.
IntegrateBody_NoExit(i, nSteps, d1, m, p, next, increment, stopValue) ==
    IF PEq(p, next) THEN [early |-> FALSE, sum |-> d1]
    ELSE IntegrateLoop(i + 1, nSteps, d1, 6 - m, next, increment, stopValue)

\* IntegrateBody with the comparison of the early exit turned around.
IntegrateBody_Flipped(i, nSteps, d1, m, p, next, increment, stopValue) ==
    IF FLt(d1, stopValue) THEN [early |-> TRUE, sum |-> d1]
    ELSE IF PEq(p, next) THEN [early |-> FALSE, sum |-> d1]
    ELSE IntegrateLoop(i + 1, nSteps, d1, 6 - m, next, increment, stopValue)

IntegrateBody(i, nSteps, d1, m, p, next, increment, stopValue) ==
    IF FGt(d1, stopValue) THEN [early |-> TRUE, sum |-> d1]
    ELSE IF PEq(p, next) THEN [early |-> FALSE, sum |-> d1]
    ELSE IntegrateLoop(i + 1, nSteps, d1, 6 - m, next, increment, stopValue)

\* for (uint32_t i=1; i<nSteps; ++i), m alternating between 4 and 2.
IntegrateLoop(i, nSteps, integratedDensity, m, p, increment, stopValue) ==
    IF i >= nSteps THEN [early |-> FALSE, sum |-> integratedDensity]
    ELSE IntegrateBody(i, nSteps,
             FAdd(integratedDensity, FMul(FInt(m), lookupDensity(p, RayD))),
             m, p, PAdd(p, increment), increment, stopValue)

\* IntegrateResult without the factor 1/3.
IntegrateResult_NoThird(loop, stepSize) ==
    IF loop.early THEN PInf
    ELSE FMul(FMul(loop.sum, m_densityMultiplier), stepSize)

\* The value returned: infinity after an early exit, else the weighted sum
\* times m_densityMultiplier * stepSize * (1.0f / 3.0f).
IntegrateResult(loop, stepSize) ==
    IF loop.early THEN PInf
    ELSE FMul(FMul(FMul(loop.sum, m_densityMultiplier), stepSize), Third)

\* StopValue without the factor 3 of Simpson's rule.
StopValue_NoThree(stepSize) ==
    FDiv(StopAfterDensity, FMul(stepSize, m_densityMultiplier))

\* stopAfterDensity * 3.0f / (stepSize * m_densityMultiplier)
StopValue(stepSize) ==
    FDiv(FMul(StopAfterDensity, FInt(3)), FMul(stepSize, m_densityMultiplier))

IntegrateStepped(p, pLast, nSteps, stepSize, increment) ==
    IntegrateResult(
        IntegrateLoop(1, nSteps,
            FAdd(lookupDensity(p, RayD), lookupDensity(pLast, RayD)),
            4, PAdd(p, increment), increment, StopValue(stepSize)),
        stepSize)

\* EvenSteps without the rounding up to an even number.
EvenSteps_Odd(n) == n

\* nSteps = (uint32_t) std::ceil(length / m_stepSize); nSteps += nSteps % 2.
EvenSteps(n) == n + (n % 2)
IntegrateSteps(length) == EvenSteps(ToUInt32(FCeil(FDiv(length, m_stepSize))))

IntegrateWithStep(p, pLast, nSteps, stepSize) ==
    IntegrateStepped(p, pLast, nSteps, stepSize, VScale(RayD, stepSize))

IntegrateSegment(length, p, pLast, nSteps) ==
    IF Degenerate(length, p, pLast) THEN 0
    ELSE IntegrateWithStep(p, pLast, nSteps, FDiv(length, FInt(nSteps)))

\* IntegrateClipped returning 1 for a ray that misses the box.
IntegrateClipped_MissOne(r, c, length) ==
    IF ~c.hit THEN One
    ELSE IntegrateSegment(length, RayAt(r, c.mint), RayAt(r, c.maxt),
                          IntegrateSteps(length))

IntegrateClipped(r, c, length) ==
    IF ~c.hit THEN 0
    ELSE IntegrateSegment(length, RayAt(r, c.mint), RayAt(r, c.maxt),
                          IntegrateSteps(length))

IntegrateOn(r, c) == IntegrateClipped(r, c, FSub(c.maxt, c.mint))

integrateDensity(r) == IntegrateOn(r, Clip(r))

----------------------------------------------------------------------------
(* invertDensityIntegral                                                   *)

\* The coefficients of the polynomial through the three lookups of a step.
Coeff1(node1, node2, node3) ==
    FAdd(FSub(FMul(FInt(3), node1), FMul(FInt(4), node2)), node3)
Coeff2(node1, node2, node3) ==
    FAdd(FSub(node1, FMul(FInt(2), node2)), node3)

\* The Lagrange polynomial from the Simpson quadrature, times temp: the
\* density at offset x into the step.
Lagrange(k, x) ==
    FMul(k.temp,
         FAdd(FSub(FMul(k.node1, k.stepSizeSqr),
                   FMul(FMul(Coeff1(k.node1, k.node2, k.node3), k.stepSize),
                        x)),
              FMul(FMul(FMul(FInt(2), Coeff2(k.node1, k.node2, k.node3)), x),
                   x)))

\* Its integral from 0 to x, added to the density integrated so far.
LagrangeIntegral(k, x) ==
    FAdd(k.integratedDensity,
         FMul(FMul(k.temp, Sixth),
              FMul(x,
                   FAdd(FSub(FMul(FMul(FInt(6), k.node1), k.stepSizeSqr),
                             FMul(FMul(FMul(FInt(3),
                                   Coeff1(k.node1, k.node2, k.node3)),
                                   k.stepSize), x)),
                        FMul(FMul(FMul(FInt(4),
                                   Coeff2(k.node1, k.node2, k.node3)), x),
                             x)))))

\* The largest number of Newton-Bisection iterations (++it > 30).
MaxNewtonIterations == 30

\* if (x <= a || x >= b || dfx == 0) x = 0.5f * (b + a);
Safeguard(s, x, dfx) ==
    IF FLe(x, s.a) \/ FGe(x, s.b) \/ FEq(dfx, 0)
    THEN FMul(Half, FAdd(s.b, s.a)) ELSE x

\* x -= fx/dfx, safeguarded.
NewtonX(s, dfx) == Safeguard(s, FSub(s.x, FDiv(s.fx, dfx)), dfx)

\* NewtonDecide with a tolerance of 1e-3 in place of 1e-6.
NewtonDecide_Loose(s, x, intval, fx) ==
    IF FLt(FAbs(fx), One \div 1000)
    THEN [s EXCEPT !.x = x, !.fx = fx, !.intval = intval,
                   !.state = "converged"]
    ELSE IF s.it + 1 > MaxNewtonIterations
    THEN [s EXCEPT !.x = x, !.fx = fx, !.intval = intval, !.it = s.it + 1,
                   !.state = "stuck"]
    ELSE [s EXCEPT !.x = x, !.fx = fx, !.intval = intval, !.it = s.it + 1,
                   !.a = IF FGt(fx, 0) THEN s.a ELSE x,
                   !.b = IF FGt(fx, 0) THEN x ELSE s.b]

\* NewtonDecide giving up one iteration later (++it > 31).
NewtonDecide_OneMore(s, x, intval, fx) ==
    IF LtMicro(FAbs(fx))
    THEN [s EXCEPT !.x = x, !.fx = fx, !.intval = intval,
                   !.state = "converged"]
    ELSE IF s.it + 1 > MaxNewtonIterations + 1
    THEN [s EXCEPT !.x = x, !.fx = fx, !.intval = intval, !.it = s.it + 1,
                   !.state = "stuck"]
    ELSE [s EXCEPT !.x = x, !.fx = fx, !.intval = intval, !.it = s.it + 1,
                   !.a = IF FGt(fx, 0) THEN s.a ELSE x,
                   !.b = IF FGt(fx, 0) THEN x ELSE s.b]

\* The end of the loop body: convergence, the iteration cap, the bracket.
NewtonDecide(s, x, intval, fx) ==
    IF LtMicro(FAbs(fx))
    THEN [s EXCEPT !.x = x, !.fx = fx, !.intval = intval,
                   !.state = "converged"]
    ELSE IF s.it + 1 > MaxNewtonIterations
    THEN [s EXCEPT !.x = x, !.fx = fx, !.intval = intval, !.it = s.it + 1,
                   !.state = "stuck"]
    ELSE [s EXCEPT !.x = x, !.fx = fx, !.intval = intval, !.it = s.it + 1,
                   !.a = IF FGt(fx, 0) THEN s.a ELSE x,
                   !.b = IF FGt(fx, 0) THEN x ELSE s.b]

NewtonResidual(s, k, x, intval) ==
    NewtonDecide(s, x, intval, FSub(intval, k.desiredDensity))

NewtonAt(s, k, x) == NewtonResidual(s, k, x, LagrangeIntegral(k, x))

\* One pass through the body of the while (true) loop.  s holds the loop's
\* variables a, b, x, fx, it; k holds what the loop only reads.
NewtonPass(s, after) ==
    [after EXCEPT !.solve = Append(s.solve, [a |-> s.a, b |-> s.b,
                                             x |-> after.x])]

NewtonIteration(s, k) ==
    NewtonPass(s, NewtonAt(s, k, NewtonX(s, Lagrange(k, s.x))))

RECURSIVE NewtonBisection(_, _)
NewtonBisection(s, k) ==
    IF s.state # "running" THEN s
    ELSE NewtonBisection(NewtonIteration(s, k), k)

\* The loop's variables on entry: a = 0, b = stepSize, x = a, it = 1.
NewtonStart(k) ==
    [a |-> 0, b |-> k.stepSize, x |-> 0,
     fx |-> FSub(k.integratedDensity, k.desiredDensity),
     it |-> 1, state |-> "running", intval |-> k.integratedDensity,
     solve |-> <<>>]

\* What the loop reads: the three lookups, the step and the two densities.
NewtonInput(c, integratedDensity, node1, node2, node3, stepSizeSqr) ==
    [temp |-> FDiv(m_densityMultiplier, stepSizeSqr),
     node1 |-> node1, node2 |-> node2, node3 |-> node3,
     stepSize |-> c.stepSize, stepSizeSqr |-> stepSizeSqr,
     integratedDensity |-> integratedDensity,
     desiredDensity |-> c.desiredDensity]

\* What the function leaves in its reference parameters and returns.
\* how tells which return was taken ("none": before or at the end of the
\* march), i is the march step and it the Newton-Bisection counter at it;
\* solve lists, per pass of the Newton-Bisection loop, the bracket [a, b] on
\* entry and the x at which the residual was evaluated; lookups counts the
\* calls of lookupDensity.
InvertResult(ok, integratedDensity, t, densityAtMinT, densityAtT) ==
    [ok |-> ok, integratedDensity |-> integratedDensity, t |-> t,
     densityAtMinT |-> densityAtMinT, densityAtT |-> densityAtT,
     how |-> "none", i |-> 0, it |-> 0, solve |-> <<>>, lookups |-> 0]

\* n calls of lookupDensity made on the way to the return of res.
Looked(res, n) == [res EXCEPT !.lookups = res.lookups + n]

\* A return from inside the march: the step i, the counter it, and whether
\* the solve converged ("converged"), gave up with a warning ("stuck") or
\* the march stopped advancing with a warning ("stalled").
ReturnedFrom(res, how, i, it) == [res EXCEPT !.how = how, !.i = i, !.it = it]

\* NewtonReturn reporting the field's value at the end of the step, node3,
\* in place of the fitted quadratic at x.
NewtonReturn_Node3(i, c, k, s) ==
    ReturnedFrom(
        IF s.state = "converged"
        THEN InvertResult(TRUE, s.intval,
                          FAdd(FAdd(c.mint, FMul(c.stepSize, FInt(i))), s.x),
                          c.densityAtMinT, FMul(k.node3, m_densityMultiplier))
        ELSE InvertResult(FALSE, k.integratedDensity, c.t, c.densityAtMinT, 0),
        s.state, i, s.it)

\* NewtonReturn counting the step of the solve among the completed ones.
NewtonReturn_NextStep(i, c, k, s) ==
    ReturnedFrom(
        IF s.state = "converged"
        THEN InvertResult(TRUE, s.intval,
                          FAdd(FAdd(c.mint, FMul(c.stepSize, FInt(i + 1))),
                               s.x),
                          c.densityAtMinT, Lagrange(k, s.x))
        ELSE InvertResult(FALSE, k.integratedDensity, c.t, c.densityAtMinT, 0),
        s.state, i, s.it)

\* The returns from inside the Newton-Bisection loop.
NewtonReturn(i, c, k, s) ==
    ReturnedFrom(
        IF s.state = "converged"
        THEN InvertResult(TRUE, s.intval,
                          FAdd(FAdd(c.mint, FMul(c.stepSize, FInt(i))), s.x),
                          c.densityAtMinT, Lagrange(k, s.x))
        ELSE InvertResult(FALSE, k.integratedDensity, c.t, c.densityAtMinT, 0),
        s.state, i, s.it)

SolveFrom(i, c, k, s) ==
    [NewtonReturn(i, c, k, s) EXCEPT !.solve = s.solve]

Solve(i, c, k) == SolveFrom(i, c, k, NewtonBisection(NewtonStart(k), k))

\* The body of the for loop once node2, node3 and newDensity are known.
RECURSIVE InvertLoop(_, _, _, _, _)
InvertBody(i, integratedDensity, node1, node2, node3, newDensity, p, next, c) ==
    IF FGe(newDensity, c.desiredDensity)
    THEN Solve(i, c, NewtonInput(c, integratedDensity, node1, node2, node3,
                                 FMul(c.stepSize, c.stepSize)))
    ELSE IF PEq(p, next)
    THEN ReturnedFrom(InvertResult(FALSE, integratedDensity, c.t,
                                   c.densityAtMinT, 0), "stalled", i, 0)
    ELSE InvertLoop(i + 1, newDensity, node3, next, c)

\* InvertLookups with node3 missing from the step's sum.
InvertLookups_NoNode3(i, integratedDensity, node1, node2, node3, p, c) ==
    Looked(InvertBody(i, integratedDensity, node1, node2, node3,
               FAdd(integratedDensity,
                    FMul(c.multiplier, FAdd(node1, FMul(node2, FInt(4))))),
               p, PAdd(p, c.fullStep), c), 2)

\* newDensity = integratedDensity + multiplier * (node1+node2*4+node3)
InvertLookups(i, integratedDensity, node1, node2, node3, p, c) ==
    Looked(InvertBody(i, integratedDensity, node1, node2, node3,
               FAdd(integratedDensity,
                    FMul(c.multiplier,
                         FAdd(FAdd(node1, FMul(node2, FInt(4))), node3))),
               p, PAdd(p, c.fullStep), c), 2)

\* for (uint32_t i=0; i<nSteps; ++i).  c holds what the loop only reads.
InvertLoop(i, integratedDensity, node1, p, c) ==
    IF i >= c.nSteps
    THEN InvertResult(FALSE, integratedDensity, c.t, c.densityAtMinT, 0)
    ELSE InvertLookups(i, integratedDensity, node1,
             lookupDensity(PAdd(p, c.halfStep), RayD),
             lookupDensity(PAdd(p, c.fullStep), RayD), p, c)

\* nSteps = (uint32_t) std::ceil(length / (2*m_stepSize))
InvertSteps(length) ==
    ToUInt32(FCeil(FDiv(length, FMul(FInt(2), m_stepSize))))

\* The values fixed before the loop.
InvertSetup(r, desiredDensity, t, mint, nSteps, stepSize, fullStep, node1) ==
    [nSteps |-> nSteps, stepSize |-> stepSize,
     multiplier |-> FMul(FMul(Sixth, stepSize), m_densityMultiplier),
     fullStep |-> fullStep, halfStep |-> VScale(fullStep, Half),
     mint |-> mint, desiredDensity |-> desiredDensity, t |-> t,
     densityAtMinT |-> IF FEq(r.mint, mint)
                       THEN FMul(node1, m_densityMultiplier) ELSE 0]

InvertMarch(p, node1, c) == InvertLoop(0, 0, node1, p, c)

InvertWithStep(r, desiredDensity, t, mint, p, nSteps, stepSize) ==
    Looked(InvertMarch(p, lookupDensity(p, RayD),
               InvertSetup(r, desiredDensity, t, mint, nSteps, stepSize,
                           VScale(RayD, stepSize), lookupDensity(p, RayD))), 1)

InvertSegment(r, desiredDensity, t, mint, length, p, pLast, nSteps) ==
    IF Degenerate(length, p, pLast) THEN InvertResult(FALSE, 0, t, 0, 0)
    ELSE InvertWithStep(r, desiredDensity, t, mint, p, nSteps,
                        FDiv(length, FInt(nSteps)))

InvertClipped(r, desiredDensity, t, c, length) ==
    IF ~c.hit THEN InvertResult(FALSE, 0, t, 0, 0)
    ELSE InvertSegment(r, desiredDensity, t, c.mint, length,
                       RayAt(r, c.mint), RayAt(r, c.maxt),
                       InvertSteps(length))

InvertOn(r, desiredDensity, t, c) ==
    InvertClipped(r, desiredDensity, t, c, FSub(c.maxt, c.mint))

\* t is the value the caller's variable holds on entry.
invertDensityIntegral(r, desiredDensity, t) ==
    InvertOn(r, desiredDensity, t, Clip(r))

----------------------------------------------------------------------------
(* The queries of the Medium interface.                                    *)

\* Log(EError, ...) throws: the query ends there.
Fatal(m) == [rec |-> m, fatal |-> TRUE]

\* int nSamples = 2 in getTransmittance.
nSamples == 2

\* getTransmittance when m_method == ESimpsonQuadrature || sampler == NULL.
TransmittanceByQuadrature(r) == FExp(FNeg(integrateDensity(r)))

\* UsesQuadrature looking at the sampler only.
UsesQuadrature_SamplerOnly(sampler) == ~sampler

\* UsesQuadrature looking at m_method only.
UsesQuadrature_MethodOnly(sampler) == m_method = "simpson"

\* getTransmittance takes the deterministic branch.
UsesQuadrature(sampler) == m_method = "simpson" \/ ~sampler

\* t -= std::log(1 - sampler->next1D()) * m_invMaxDensity.
Propose(t, xi) == FSub(t, FMul(Log1m(xi), m_invMaxDensity))

\* density * m_invMaxDensity > sampler->next1D()
AcceptsDensity(density, xi) == FGt(FMul(density, m_invMaxDensity), xi)

\* The same test with the density taken at ray(t).
Accepts(r, t, xi) ==
    AcceptsDensity(FMul(lookupDensity(RayAt(r, t), RayD),
                        m_densityMultiplier), xi)

\* SimpsonRecord with pdfSuccessRev taken from densityAtT.
SimpsonRecord_RevAtT(m, res, expVal) ==
    [(IF res.ok
      THEN [m EXCEPT !.t = res.t,
                     !.sigmaS = FMul(m_albedo, res.densityAtT),
                     !.sigmaA = FSub(res.densityAtT,
                                     FMul(m_albedo, res.densityAtT)),
                     !.albedo = m_albedo]
      ELSE [m EXCEPT !.t = res.t])
     EXCEPT !.pdfFailure = expVal,
            !.pdfSuccess = FMul(expVal, res.densityAtT),
            !.pdfSuccessRev = FMul(expVal, res.densityAtT),
            !.transmittance = expVal]

\* sampleDistance, Simpson branch, after invertDensityIntegral returned res:
\* the record it leaves and what it returns.
SimpsonRecord(m, res, expVal) ==
    [(IF res.ok
      THEN [m EXCEPT !.t = res.t,
                     !.sigmaS = FMul(m_albedo, res.densityAtT),
                     !.sigmaA = FSub(res.densityAtT,
                                     FMul(m_albedo, res.densityAtT)),
                     !.albedo = m_albedo]
      ELSE [m EXCEPT !.t = res.t])
     EXCEPT !.pdfFailure = expVal,
            !.pdfSuccess = FMul(expVal, res.densityAtT),
            !.pdfSuccessRev = FMul(expVal, res.densityAtMinT),
            !.transmittance = expVal]

\* SimpsonReturn returning success alone, without && mRec.pdfSuccess > 0.
SimpsonReturn_SuccessOnly(res, rec) == [rec |-> rec, inv |-> res, ok |-> res.ok]

SimpsonReturn(res, rec) ==
    [rec |-> rec, inv |-> res, ok |-> res.ok /\ FGt(rec.pdfSuccess, 0)]

SimpsonFinish(m, res) ==
    SimpsonReturn(res,
                  SimpsonRecord(m, res, FExp(FNeg(res.integratedDensity))))

\* desiredDensity = -std::log(1 - sampler->next1D())
DesiredDensity(xi) == FNeg(Log1m(xi))

SampleDistanceSimpson(r, xi, m) ==
    SimpsonFinish(m, invertDensityIntegral(r, DesiredDensity(xi), m.t))

\* sampleDistance, Woodcock branch: the "invalid" values written first.
WoodcockSentinels(m) ==
    [m EXCEPT !.pdfFailure = One, !.pdfSuccess = One, !.pdfSuccessRev = One,
              !.transmittance = One]

\* WoodcockAccept without mRec.transmittance = albedo/mRec.sigmaS.
WoodcockAccept_NoTransmittance(m, t, densityAtT) ==
    [m EXCEPT !.t = t, !.sigmaS = FMul(m_albedo, densityAtT),
              !.sigmaA = FSub(densityAtT, FMul(m_albedo, densityAtT)),
              !.albedo = m_albedo]

\* sampleDistance, Woodcock branch: the record after an accepted proposal.
WoodcockAccept(m, t, densityAtT) ==
    LET sigmaS == FMul(m_albedo, densityAtT)
    IN  [m EXCEPT !.t = t, !.sigmaS = sigmaS,
                  !.sigmaA = FSub(densityAtT, sigmaS), !.albedo = m_albedo,
                  !.transmittance = FDiv(m_albedo, sigmaS)]

\* pdfDistance, Simpson branch.
PdfRecord(r, m, expVal) ==
    [m EXCEPT
       !.transmittance = expVal,
       !.pdfFailure = expVal,
       !.pdfSuccess =
           FMul(FMul(expVal, lookupDensity(RayAt(r, r.maxt), RayD)),
                m_densityMultiplier),
       !.pdfSuccessRev =
           FMul(FMul(expVal, lookupDensity(RayAt(r, r.mint), RayD)),
                m_densityMultiplier)]

\* pdfDistance without the test of m_method.
pdfDistance_NoTest(r, m) ==
    [rec |-> PdfRecord(r, m, FExp(FNeg(integrateDensity(r)))),
     fatal |-> FALSE]

\* pdfDistance: the record it leaves, and whether it raised the error.
pdfDistance(r, m) ==
    IF m_method = "simpson"
    THEN [rec |-> PdfRecord(r, m, FExp(FNeg(integrateDensity(r)))),
          fatal |-> FALSE]
    ELSE Fatal(m)

----------------------------------------------------------------------------
(* The inputs of the model.                                                *)

Methods == {"simpson", "woodcock"}
StepSizes == {Half, One}
Multipliers == {FInt(2)}
FieldValues == {0, One, FInt(4)}
Fields == [Cells -> FieldValues]
Albedos == {Half}

\* The rays: origins before and at the box, on the line through it with
\* ray.maxt up to MaxT, and off that line.
MaxT == 3
Rays == [ox : {-One, 0}, oy : {0}, mint : {0, Half},
         maxt : {0, 3 * Half} \cup {FInt(k) : k \in 1 .. MaxT}]
        \cup [ox : {-One, 0}, oy : {FInt(2)}, mint : {0}, maxt : {One}]

\* The targets handed to invertDensityIntegral.
Targets == {0, One, 3 * Half, FInt(12), FInt(20)}

\* What the caller's record holds before a query.
Caller(v) == [t |-> v, sigmaS |-> v, sigmaA |-> v, albedo |-> v,
              pdfFailure |-> v, pdfSuccess |-> v, pdfSuccessRev |-> v,
              transmittance |-> v]
CallerRecords == {Caller(-One), Caller(FInt(7))}

\* A Woodcock loop of the model draws at most MaxDraws values.
MaxDraws == 4

NoRay == [ox |-> 0, oy |-> 0, mint |-> 0, maxt |-> 0]
NoInv == InvertResult(FALSE, 0, 0, 0, 0)
NoRet == [ok |-> FALSE, val |-> 0]
NoLoc == [i |-> 0, t |-> 0, mint |-> 0, maxt |-> 0, result |-> 0]

\* The second thread between two calls: its ray, its locals t and maxt, the
\* draws from its own sampler, its own record and what its call returned.
NoPeer == [pc |-> "idle", ray |-> NoRay, t |-> 0, maxt |-> 0, draws |-> 0,
           mRec |-> Caller(FInt(7)), ok |-> FALSE]

Idle == /\ pc = "idle" /\ op = "none" /\ ray = NoRay /\ hasSampler = FALSE
        /\ draws = 0 /\ desired = 0 /\ mRec0 = Caller(-One)
        /\ mRec = Caller(-One) /\ inv = NoInv /\ ret = NoRet
        /\ fatal = FALSE /\ loc = NoLoc /\ peer = NoPeer

Maximum(f) == CHOOSE v \in FieldValues :
                 /\ \E c \in Cells : f[c] = v
                 /\ \A c \in Cells : f[c] <= v

\* The orientation volume of a medium that was given none; it is not read.
NoOrientation == [k \in Cells |-> <<0, 0>>]

\* A scene: which volumes addChild received, the step size each reports
\* (getStepSize), the 'stepSize' property (0 when absent) and whether the
\* phase function needs directionally varying coefficients.
NaturalSteps == {Half, One, PInf}
Scenes == [density : BOOLEAN, albedo : BOOLEAN, orientation : BOOLEAN,
           densityStep : NaturalSteps, albedoStep : NaturalSteps,
           orientationStep : NaturalSteps, stepSize : {0, One},
           anisotropic : BOOLEAN]

\* A density and an albedo volume, an isotropic phase function and the
\* step size given as a property.
PlainScene(stepSize) ==
    [density |-> TRUE, albedo |-> TRUE, orientation |-> FALSE,
     densityStep |-> One, albedoStep |-> One, orientationStep |-> One,
     stepSize |-> stepSize, anisotropic |-> FALSE]

\* m_phaseFunction->sigmaDirMax() of an anisotropic phase function.
SigmaDirMax == One

\* InferStepSize without the orientation volume's step size.
InferStepSize_NoOrientation(sc) == FMin(sc.densityStep, sc.albedoStep)

\* std::min over getStepSize() of the density, the albedo and, when there
\* is one, the orientation volume.
InferStepSize(sc) ==
    IF sc.orientation
    THEN FMin(FMin(sc.densityStep, sc.albedoStep), sc.orientationStep)
    ELSE FMin(sc.densityStep, sc.albedoStep)

\* What configure() leaves in the members it writes, and whether it threw.
ConfigureResult(threw, anisotropic, maxDensity, invMaxDensity, stepSize) ==
    [fatal |-> threw, m_anisotropicMedium |-> anisotropic,
     m_maxDensity |-> maxDensity, m_invMaxDensity |-> invMaxDensity,
     m_stepSize |-> stepSize]

\* From the step size on: Log(EError) when none can be inferred, and when
\* the phase function is anisotropic and there is no orientation volume.
ConfigureSteps(sc, maxDensity, stepSize) ==
    ConfigureResult(\/ (m_stepSize = 0 /\ stepSize = PInf)
                    \/ (sc.anisotropic /\ ~sc.orientation),
                    sc.anisotropic, maxDensity, FDiv(One, maxDensity),
                    stepSize)

\* ConfigureMajorant inferring the step size whatever the property says.
ConfigureMajorant_AlwaysInfer(sc, maxDensity) ==
    ConfigureSteps(sc, IF sc.anisotropic THEN FMul(maxDensity, SigmaDirMax)
                       ELSE maxDensity,
                   InferStepSize(sc))

ConfigureMajorant(sc, maxDensity) ==
    ConfigureSteps(sc, IF sc.anisotropic THEN FMul(maxDensity, SigmaDirMax)
                       ELSE maxDensity,
                   IF m_stepSize = 0 THEN InferStepSize(sc) ELSE m_stepSize)

\* configure(): Log(EError) throws, so the first error ends it and leaves
\* the members written so far.
configure(sc) ==
    IF ~sc.density \/ ~sc.albedo
    THEN ConfigureResult(TRUE, m_anisotropicMedium, m_maxDensity,
                         m_invMaxDensity, m_stepSize)
    ELSE ConfigureMajorant(sc, FMul(m_densityMultiplier, Maximum(m_density)))

\* The state configure() leaves.
Configured(methods, stepSizes, multipliers, fields) ==
    /\ m_method \in methods
    /\ m_stepSize \in stepSizes
    /\ m_densityMultiplier \in multipliers
    /\ m_density \in fields
    /\ m_albedo \in Albedos
    /\ m_maxDensity = FMul(m_densityMultiplier, Maximum(m_density))
    /\ m_invMaxDensity = FDiv(One, m_maxDensity)
    /\ m_anisotropicMedium = FALSE
    /\ m_orientation = NoOrientation
    /\ scene = PlainScene(m_stepSize)

\* Woodcock tracking never reads m_stepSize: one step size stands for all.
Init ==
    /\ \/ Configured({"simpson"}, StepSizes, Multipliers, Fields)
       \/ Configured(Methods \ {"simpson"}, {One}, Multipliers, Fields)
    /\ Idle

----------------------------------------------------------------------------
(* The actions: one per query, one per iteration of a Woodcock loop.       *)

Begin(name, r, sampler, m) ==
    /\ op' = name /\ ray' = r /\ hasSampler' = sampler /\ mRec0' = m
    /\ peer' = peer

CallIntegrateDensity(R) ==
    /\ pc = "idle"
    /\ \E r \in R :
            /\ Begin("integrateDensity", r, FALSE, mRec)
            /\ ret' = [ok |-> TRUE, val |-> integrateDensity(r)]
            /\ pc' = "done"
            /\ UNCHANGED <<cfgVars, draws, desired, mRec, inv, fatal, loc>>

CallInvertDensityIntegral(R, T, M) ==
    /\ pc = "idle"
    /\ \E r \in R, D \in T, m \in M :
            \E res \in {invertDensityIntegral(r, D, m.t)} :
                /\ Begin("invertDensityIntegral", r, FALSE, m)
                /\ desired' = D
                /\ inv' = res
                /\ mRec' = m
                /\ ret' = [ok |-> res.ok, val |-> 0]
                /\ pc' = "done"
                /\ UNCHANGED <<cfgVars, draws, fatal, loc>>

CallGetTransmittance(R) ==
    /\ pc = "idle"
    /\ \E r \in R, sampler \in BOOLEAN :
            /\ Begin("getTransmittance", r, sampler, mRec)
            /\ IF UsesQuadrature(sampler)
               THEN /\ ret' = [ok |-> TRUE, val |-> TransmittanceByQuadrature(r)]
                    /\ pc' = "done"
                    /\ loc' = loc
               ELSE \E c \in {Clip(r)} :
                        IF ~c.hit
                        THEN /\ ret' = [ok |-> TRUE, val |-> One]
                             /\ pc' = "done"
                             /\ loc' = loc
                        ELSE /\ ret' = ret
                             /\ pc' = "tracking"
                             /\ loc' = [i |-> 0, t |-> c.mint, mint |-> c.mint,
                                        maxt |-> c.maxt, result |-> 0]
            /\ UNCHANGED <<cfgVars, draws, desired, mRec, inv, fatal>>

\* EndRun letting the next run go on from where the last one ended.
EndRun_NoRestart(result) ==
    IF loc.i + 1 >= nSamples
    THEN /\ ret' = [ok |-> TRUE, val |-> FDiv(result, FInt(nSamples))]
         /\ pc' = "done"
         /\ loc' = [loc EXCEPT !.i = loc.i + 1, !.result = result]
    ELSE /\ ret' = ret
         /\ pc' = "tracking"
         /\ loc' = [loc EXCEPT !.i = loc.i + 1, !.result = result]

\* One iteration of the while (true) loop of getTransmittance; a run that
\* ends starts the next one, and the last one returns.
EndRun(result) ==
    IF loc.i + 1 >= nSamples
    THEN /\ ret' = [ok |-> TRUE, val |-> FDiv(result, FInt(nSamples))]
         /\ pc' = "done"
         /\ loc' = [loc EXCEPT !.i = loc.i + 1, !.result = result]
    ELSE /\ ret' = ret
         /\ pc' = "tracking"
         /\ loc' = [loc EXCEPT !.i = loc.i + 1, !.result = result,
                               !.t = loc.mint]

TrackTransmittance ==
    /\ pc = "tracking" /\ op = "getTransmittance"
    /\ draws < MaxDraws
    /\ \E xi1 \in Xi, xi2 \in Xi :
        \E t \in {Propose(loc.t, xi1)} :
            IF FGe(t, loc.maxt)
            THEN /\ draws' = draws + 1
                 /\ EndRun(FAdd(loc.result, One))
            ELSE /\ draws' = draws + 2
                 /\ IF Accepts(ray, t, xi2)
                    THEN EndRun(loc.result)
                    ELSE /\ loc' = [loc EXCEPT !.t = t]
                         /\ pc' = "tracking"
                         /\ ret' = ret
    /\ UNCHANGED <<cfgVars, op, ray, hasSampler, desired, mRec0, mRec, inv,
                   fatal, peer>>

CallSampleDistance(R, M) ==
    /\ pc = "idle"
    /\ \E r \in R, m \in M :
            /\ Begin("sampleDistance", r, TRUE, m)
            /\ IF m_method = "simpson"
               THEN \E xi \in Xi :
                      \E res \in {SampleDistanceSimpson(r, xi, m)} :
                          /\ mRec' = res.rec
                          /\ inv' = res.inv
                          /\ desired' = DesiredDensity(xi)
                          /\ draws' = 1
                          /\ ret' = [ok |-> res.ok, val |-> 0]
                          /\ pc' = "done"
                          /\ loc' = loc
               ELSE \E c \in {Clip(r)} :
                        /\ mRec' = WoodcockSentinels(m)
                        /\ UNCHANGED <<inv, desired, draws>>
                        /\ IF ~c.hit
                           THEN /\ ret' = [ok |-> FALSE, val |-> 0]
                                /\ pc' = "done"
                                /\ loc' = loc
                           ELSE /\ ret' = ret
                                /\ pc' = "tracking"
                                /\ loc' = [i |-> 0, t |-> c.mint,
                                           mint |-> c.mint, maxt |-> c.maxt,
                                           result |-> 0]
            /\ UNCHANGED <<cfgVars, fatal>>

\* One iteration of the while (true) loop of sampleDistance.
TrackDistance ==
    /\ pc = "tracking" /\ op = "sampleDistance"
    /\ draws < MaxDraws
    /\ \E xi1 \in Xi, xi2 \in Xi :
        \E t \in {Propose(loc.t, xi1)} :
        \E densityAtT \in {FMul(lookupDensity(RayAt(ray, t), RayD),
                                 m_densityMultiplier)} :
            IF FGe(t, loc.maxt)
            THEN /\ draws' = draws + 1
                 /\ loc' = [loc EXCEPT !.t = t]
                 /\ mRec' = mRec
                 /\ ret' = [ok |-> FALSE, val |-> 0]
                 /\ pc' = "done"
            ELSE /\ draws' = draws + 2
                 /\ loc' = [loc EXCEPT !.t = t]
                 /\ IF AcceptsDensity(densityAtT, xi2)
                    THEN /\ mRec' = WoodcockAccept(mRec, t, densityAtT)
                         /\ ret' = [ok |-> FGt(mRec.pdfSuccess, 0),
                                    val |-> 0]
                         /\ pc' = "done"
                    ELSE /\ mRec' = mRec
                         /\ ret' = ret
                         /\ pc' = "tracking"
    /\ UNCHANGED <<cfgVars, op, ray, hasSampler, desired, mRec0, inv, fatal,
                   peer>>

CallPdfDistance(R) ==
    /\ pc = "idle"
    /\ \E r \in R, m \in CallerRecords :
            \E res \in {pdfDistance(r, m)} :
                /\ Begin("pdfDistance", r, FALSE, m)
                /\ mRec' = res.rec
                /\ fatal' = res.fatal
                /\ pc' = "done"
                /\ UNCHANGED <<cfgVars, draws, desired, inv, ret, loc>>

\* The caller has read the result; the medium is ready for the next query.
Return ==
    /\ pc = "done"
    /\ pc' = "idle" /\ op' = "none" /\ ray' = NoRay /\ hasSampler' = FALSE
    /\ draws' = 0 /\ desired' = 0 /\ mRec0' = Caller(-One)
    /\ mRec' = Caller(-One) /\ inv' = NoInv /\ ret' = NoRet
    /\ fatal' = FALSE /\ loc' = NoLoc
    /\ UNCHANGED <<cfgVars, peer>>

Next ==
    \/ CallIntegrateDensity(Rays)
    \/ CallInvertDensityIntegral(Rays, Targets, CallerRecords)
    \/ CallGetTransmittance(Rays)
    \/ TrackTransmittance
    \/ CallSampleDistance(Rays, {Caller(-One)})
    \/ TrackDistance
    \/ CallPdfDistance(Rays)
    \/ Return

Spec == Init /\ [][Next]_vars

\* The queries of the quadrature alone, under ESimpsonQuadrature.
QuadInit == Configured({"simpson"}, StepSizes, Multipliers, Fields) /\ Idle

QuadNext ==
    \/ CallIntegrateDensity(Rays)
    \/ CallInvertDensityIntegral(Rays, Targets, {Caller(-One)})
    \/ Return

QuadSpec == QuadInit /\ [][QuadNext]_vars

\* The queries of Woodcock tracking alone.
TrackInit == Configured({"woodcock"}, {One}, Multipliers, Fields) /\ Idle

TrackNext ==
    \/ CallGetTransmittance(Rays)
    \/ TrackTransmittance
    \/ CallSampleDistance(Rays, CallerRecords)
    \/ TrackDistance
    \/ CallPdfDistance(Rays)
    \/ Return

TrackSpec == TrackInit /\ [][TrackNext]_vars

----------------------------------------------------------------------------
(* Two threads: the queries of Woodcock tracking run by one thread while a  *)
(* second thread runs sampleDistance on the same medium, with its own      *)
(* sampler and its own MediumSamplingRecord.                               *)

PairFields == {[k \in Cells |-> IF k = 0 THEN One ELSE FInt(4)]}
PairRays == {r \in Rays : r.ox = 0 /\ r.mint = 0 /\ r.maxt = FInt(2)}

\* sampleDistance, Woodcock branch, up to the loop, in the second thread.
PeerSampleDistance(r, c, m) ==
    IF ~c.hit
    THEN [pc |-> "done", ray |-> r, t |-> 0, maxt |-> 0, draws |-> 0,
          mRec |-> WoodcockSentinels(m), ok |-> FALSE]
    ELSE [pc |-> "tracking", ray |-> r, t |-> c.mint, maxt |-> c.maxt,
          draws |-> 0, mRec |-> WoodcockSentinels(m), ok |-> FALSE]

\* One iteration of its while (true) loop with the proposal t.
PeerIteration(q, t, densityAtT, xi2) ==
    IF FGe(t, q.maxt)
    THEN [q EXCEPT !.pc = "done", !.t = t, !.draws = q.draws + 1,
                   !.ok = FALSE]
    ELSE IF AcceptsDensity(densityAtT, xi2)
    THEN [q EXCEPT !.pc = "done", !.t = t, !.draws = q.draws + 2,
                   !.mRec = WoodcockAccept(q.mRec, t, densityAtT),
                   !.ok = FGt(q.mRec.pdfSuccess, 0)]
    ELSE [q EXCEPT !.t = t, !.draws = q.draws + 2]

PeerProposal(q, t, xi2) ==
    PeerIteration(q, t, FMul(lookupDensity(RayAt(q.ray, t), RayD),
                             m_densityMultiplier), xi2)

\* PeerStep with the loop variable t kept in the medium, where the first
\* thread's loop finds it.
PeerStep_SharedT(q) ==
    /\ peer' = q
    /\ loc' = [loc EXCEPT !.t = q.t]
    /\ UNCHANGED <<cfgVars, pc, op, ray, hasSampler, draws, desired, mRec0,
                   mRec, inv, ret, fatal>>

\* A step of the second thread: sampleDistance is const and works on its
\* locals, its sampler and its mRec only.
PeerStep(q) == peer' = q /\ UNCHANGED <<cfgVars, callVars>>

PeerCall ==
    /\ peer.pc = "idle"
    /\ \E r \in PairRays : PeerStep(PeerSampleDistance(r, Clip(r), peer.mRec))

PeerTrack ==
    /\ peer.pc = "tracking"
    /\ peer.draws < MaxDraws
    /\ \E xi1 \in Xi, xi2 \in Xi :
           PeerStep(PeerProposal(peer, Propose(peer.t, xi1), xi2))

PeerReturn == peer.pc = "done" /\ PeerStep(NoPeer)

PairInit == Configured({"woodcock"}, {One}, Multipliers, PairFields) /\ Idle

PairNext == TrackNext \/ PeerCall \/ PeerTrack \/ PeerReturn

PairSpec == PairInit /\ [][PairNext]_vars

----------------------------------------------------------------------------
(* configure(), run once on the object the constructor and addChild left.  *)

\* The members configure() computes start at 0; it writes them before any
\* code reads them.
ConfigInit ==
    /\ scene \in Scenes
    /\ m_method \in Methods
    /\ m_stepSize = scene.stepSize
    /\ m_densityMultiplier \in Multipliers
    /\ m_density \in PairFields
    /\ m_albedo \in Albedos
    /\ m_maxDensity = 0 /\ m_invMaxDensity = 0 /\ m_anisotropicMedium = FALSE
    /\ m_orientation = NoOrientation
    /\ pc = "unconfigured" /\ op = "none" /\ ray = NoRay /\ hasSampler = FALSE
    /\ draws = 0 /\ desired = 0 /\ mRec0 = Caller(-One)
    /\ mRec = Caller(-One) /\ inv = NoInv /\ ret = NoRet
    /\ fatal = FALSE /\ loc = NoLoc /\ peer = NoPeer

Configure ==
    /\ pc = "unconfigured"
    /\ \E res \in {configure(scene)} :
           /\ fatal' = res.fatal
           /\ pc' = IF res.fatal THEN "failed" ELSE "idle"
           /\ m_anisotropicMedium' = res.m_anisotropicMedium
           /\ m_maxDensity' = res.m_maxDensity
           /\ m_invMaxDensity' = res.m_invMaxDensity
           /\ m_stepSize' = res.m_stepSize
    /\ UNCHANGED <<m_method, m_densityMultiplier, m_density, m_albedo,
                   m_orientation, scene, op, ray, hasSampler, draws, desired, mRec0, mRec, inv,
                   ret, loc, peer>>

ConfigNext == Configure

ConfigSpec == ConfigInit /\ [][ConfigNext]_vars

----------------------------------------------------------------------------
(* lookupDensity on isotropic and anisotropic media.                       *)

OrientationValues == {<<0, 0>>, <<One, 0>>, <<Half, Half>>}
LookupPoints == {<<Half, Half>>, <<3 * Half, Half>>, <<-One, Half>>}
LookupDirections == {<<One, 0>>, <<0, One>>}

LookupInit ==
    /\ m_method = "simpson" /\ m_stepSize = One
    /\ m_densityMultiplier \in Multipliers
    /\ m_density \in Fields /\ m_albedo \in Albedos
    /\ m_anisotropicMedium \in BOOLEAN
    /\ m_orientation \in (IF m_anisotropicMedium
                          THEN [Cells -> OrientationValues]
                          ELSE {NoOrientation})
    /\ m_maxDensity =
           FMul(FMul(m_densityMultiplier, Maximum(m_density)),
                IF m_anisotropicMedium THEN SigmaDirMax ELSE One)
    /\ m_invMaxDensity = FDiv(One, m_maxDensity)
    /\ scene = [PlainScene(One) EXCEPT !.anisotropic = m_anisotropicMedium,
                                       !.orientation = m_anisotropicMedium]
    /\ Idle

\* A call of lookupDensity(p, d); loc holds p, d and whether the
\* orientation volume was read.
CallLookupDensity ==
    /\ pc = "idle"
    /\ \E p \in LookupPoints, d \in LookupDirections :
           /\ op' = "lookupDensity"
           /\ loc' = [p |-> p, d |-> d,
                      orientationRead |-> ReadsOrientation(lookupFloat(p))]
           /\ ret' = [ok |-> TRUE, val |-> lookupDensity(p, d)]
           /\ pc' = "done"
    /\ UNCHANGED <<cfgVars, ray, hasSampler, draws, desired, mRec0, mRec,
                   inv, fatal, peer>>

LookupNext == CallLookupDensity \/ Return

LookupSpec == LookupInit /\ [][LookupNext]_vars

----------------------------------------------------------------------------
(* What the properties below speak of.                                     *)

\* Two values agree up to the rounding of the arithmetic.
RoundOff == 256
Near(x, y) == x = y \/ (IsFin(x) /\ IsFin(y) /\ Abs(x - y) <= RoundOff)

\* A query has returned.
Returned(name) == pc = "done" /\ op = name

\* The part of [ray.mint, ray.maxt] on which the ray is inside the box.
SegMin(r) == FMax(rayIntersect(r).nearT, r.mint)
SegMax(r) == FMin(rayIntersect(r).farT, r.maxt)
SegLength(r) == FSub(SegMax(r), SegMin(r))
HasSegment(r) == rayIntersect(r).hit /\ FGt(SegMax(r), SegMin(r))

\* The ray cut off at t.
Upto(r, t) == [r EXCEPT !.maxt = t]

\* The composite Simpson sum over all the nodes of the clipped segment, and
\* its value times multiplier, step and 1/3: integrateDensity's loop run
\* with a stop value that no sum exceeds.
WholeLoop(p, pLast, nSteps, increment) ==
    IntegrateLoop(1, nSteps,
        FAdd(lookupDensity(p, RayD), lookupDensity(pLast, RayD)),
        4, PAdd(p, increment), increment, PInf)
WholeStepped(p, pLast, nSteps, stepSize) ==
    [sum |-> WholeLoop(p, pLast, nSteps, VScale(RayD, stepSize)).sum,
     stepSize |-> stepSize]
WholeSegment(length, p, pLast, nSteps) ==
    WholeStepped(p, pLast, nSteps, FDiv(length, FInt(nSteps)))
WholeSum(r) ==
    WholeSegment(SegLength(r), RayAt(r, SegMin(r)), RayAt(r, SegMax(r)),
                 IntegrateSteps(SegLength(r)))
WholeValueOf(w) ==
    FMul(FMul(FMul(w.sum, m_densityMultiplier), w.stepSize), Third)
WholeValue(r) == WholeValueOf(WholeSum(r))

\* The cells the clipped segment touches hold one value; sigma is that
\* value times the multiplier.
CellOf(x) == IF x \div One >= NCells THEN NCells - 1 ELSE x \div One
SegCells(r) == CellOf(r.ox + SegMin(r)) .. CellOf(r.ox + SegMax(r))
ConstantOn(r) == \A j, k \in SegCells(r) : m_density[j] = m_density[k]
SigmaOn(r) == FMul(m_densityMultiplier, m_density[CellOf(r.ox + SegMin(r))])

----------------------------------------------------------------------------
(* The properties.                                                         *)

\* C1: under ESimpsonQuadrature getTransmittance returns
\* exp(-integrateDensity(ray)), with a sampler and without one, enters no
\* tracking loop and draws nothing from the sampler.
C1_TransmittanceIsExpOfIntegral ==
    (op = "getTransmittance" /\ m_method = "simpson") =>
        /\ pc # "tracking"
        /\ draws = 0
        /\ pc = "done" => ret.val = FExp(FNeg(integrateDensity(ray)))

C1_Witness ==
    /\ Returned("getTransmittance") /\ m_method = "simpson" /\ hasSampler
    /\ ret.val > 0 /\ ret.val < One

\* C2 as stated, and granting it the rounding of the arithmetic: for
\* 0 <= D <= integrateDensity(ray), the t of an inversion that returned
\* true makes integrateDensity over [ray.mint, t] agree with D.
C2_RoundTrip ==
    (Returned("invertDensityIntegral") /\ FGe(desired, 0)
        /\ FLe(desired, integrateDensity(ray)) /\ ret.ok) =>
        Near(integrateDensity(Upto(ray, inv.t)), desired)

\* C2 amended: whenever the inversion returns true, the integratedDensity
\* it reports is within 1e-6 of the target.
C2_ReportedDensityMeetsTarget ==
    (Returned("invertDensityIntegral") /\ ret.ok) =>
        LtMicro(FAbs(FSub(inv.integratedDensity, desired)))

C2_Witness ==
    /\ Returned("invertDensityIntegral") /\ ret.ok
    /\ desired > 0 /\ inv.t > SegMin(ray) /\ inv.t < SegMax(ray)

\* C3 as stated: a target above the integral of the whole segment makes the
\* inversion return false with integratedDensity below the target and equal
\* to what integrateDensity(ray) returns.
C3_AsStated(whole, integral) ==
    FGt(desired, whole + RoundOff) =>
        /\ ~ret.ok
        /\ FLt(inv.integratedDensity, desired)
        /\ Near(inv.integratedDensity, integral)

C3_Amended(whole, integral) ==
    FGt(desired, whole + RoundOff) =>
        /\ ~ret.ok
        /\ FLt(inv.integratedDensity, desired)
        /\ Near(inv.integratedDensity, whole)
        /\ \/ Near(inv.integratedDensity, integral)
           \/ integral = PInf /\ FGt(whole, StopAfterDensity)

C3_Case(whole) ==
    /\ FGt(desired, whole + RoundOff) /\ ~ret.ok
    /\ inv.integratedDensity > 0 /\ FLt(whole, StopAfterDensity)

C4_DistanceWithinSegment ==
    (Returned("sampleDistance") /\ ret.ok) =>
        /\ rayIntersect(ray).hit
        /\ FGe(mRec.t, SegMin(ray))
        /\ FLe(mRec.t, SegMax(ray))

C4_Witness ==
    /\ Returned("sampleDistance") /\ ret.ok /\ m_method = "woodcock"
    /\ mRec.t > SegMin(ray) /\ ray.mint > 0

C4_WitnessQuadrature ==
    /\ Returned("sampleDistance") /\ ret.ok /\ m_method = "simpson"
    /\ mRec.t > SegMin(ray)

\* C5: after sampleDistance under ESimpsonQuadrature, successful or not,
\* transmittance = pdfFailure = exp(-integratedDensity),
\* pdfSuccess = transmittance * densityAtT and
\* pdfSuccessRev = transmittance * densityAtMinT.
C5_RecordOfQuadrature ==
    (Returned("sampleDistance") /\ m_method = "simpson") =>
        /\ mRec.transmittance = FExp(FNeg(inv.integratedDensity))
        /\ mRec.pdfFailure = mRec.transmittance
        /\ mRec.pdfSuccess = FMul(mRec.transmittance, inv.densityAtT)
        /\ mRec.pdfSuccessRev = FMul(mRec.transmittance, inv.densityAtMinT)

C5_Witness ==
    /\ Returned("sampleDistance") /\ m_method = "simpson" /\ ~ret.ok
    /\ inv.densityAtMinT > 0 /\ mRec.pdfSuccessRev > 0
    /\ mRec.pdfSuccess = 0

C7_Opaque(w) ==
    /\ FGt(w.sum, StopValue(w.stepSize))
    /\ FGt(WholeValueOf(w), StopAfterDensity)

C7_EarlyExitOnlyWhenOpaque ==
    (Returned("integrateDensity") /\ ret.val = PInf
        /\ \A k \in Cells : m_density[k] >= 0) =>
        HasSegment(ray) /\ C7_Opaque(WholeSum(ray))

C7_Witness ==
    /\ Returned("integrateDensity") /\ ret.val = PInf
    /\ \E j, k \in Cells : m_density[j] = 0 /\ m_density[k] > 0

C8_Amended(exact) ==
    IF FGt(exact, StopAfterDensity + RoundOff) THEN ret.val = PInf
    ELSE IF FLt(exact, StopAfterDensity - RoundOff) THEN Near(ret.val, exact)
    ELSE ret.val = PInf \/ Near(ret.val, exact)

AtMost(x, y) == FLe(x, y) \/ Near(x, y)

\* The ends t1 <= ray.maxt of a shorter segment from the same ray.mint.
Ends(r) == {t \in {r.maxt} \cup {k * Half : k \in 1 .. 2 * MaxT} :
              FGt(t, SegMin(r)) /\ FLe(t, r.maxt)}

C10_PdfDistanceFatalUnderWoodcock ==
    Returned("pdfDistance") =>
        IF m_method = "woodcock"
        THEN /\ fatal
             /\ mRec.transmittance = mRec0.transmittance
             /\ mRec.pdfFailure = mRec0.pdfFailure
             /\ mRec.pdfSuccess = mRec0.pdfSuccess
             /\ mRec.pdfSuccessRev = mRec0.pdfSuccessRev
        ELSE ~fatal

C10_Witness ==
    /\ Returned("pdfDistance") /\ m_method = "woodcock" /\ fatal
    /\ rayIntersect(ray).hit /\ mRec = Caller(FInt(7))

\* C11 as stated: under Woodcock tracking getTransmittance without a
\* sampler fails and returns no transmittance.
C11_NoSamplerFails ==
    (Returned("getTransmittance") /\ m_method = "woodcock" /\ ~hasSampler)
        => fatal

\* C11 amended: under Woodcock tracking getTransmittance without a sampler
\* returns exp(-integrateDensity(ray)), as under ESimpsonQuadrature; it
\* raises no error, enters no tracking loop and draws nothing.
C11_NoSamplerFallsBackToQuadrature ==
    (op = "getTransmittance" /\ m_method = "woodcock" /\ ~hasSampler) =>
        /\ pc # "tracking"
        /\ draws = 0
        /\ ~fatal
        /\ pc = "done" => ret.val = FExp(FNeg(integrateDensity(ray)))

C11_Witness ==
    /\ Returned("getTransmittance") /\ m_method = "woodcock" /\ ~hasSampler
    /\ ret.val > 0 /\ ret.val < One

\* C12: for a ray that misses the bounding box integrateDensity returns 0
\* and getTransmittance returns 1, under ESimpsonQuadrature and under
\* Woodcock tracking with a sampler.
C12_MissIsTransparent ==
    ~rayIntersect(ray).hit =>
        /\ Returned("integrateDensity") => ret.val = 0
        /\ op = "getTransmittance" => pc = "done" /\ ret.val = One

C12_Witness ==
    /\ Returned("getTransmittance") /\ ~rayIntersect(ray).hit
    /\ m_method = "woodcock" /\ hasSampler /\ ret.val = One
    /\ \A k \in Cells : m_density[k] > 0

\* The clipped interval of integrateDensity is empty, of zero length or
\* shorter than 1e-6 times the largest coordinate of its end points.
C13_Ignorable(r, c) ==
    \/ ~c.hit
    \/ FLe(FSub(c.maxt, c.mint), 0)
    \/ Degenerate(FSub(c.maxt, c.mint), RayAt(r, c.mint), RayAt(r, c.maxt))

\* C13: integrateDensity returns exactly 0 for every ray whose clipped
\* interval is empty, of zero length or degenerate, wherever its end points
\* lie, the zero-length segment at the coordinate origin included.
C13_DegenerateIsZero ==
    (Returned("integrateDensity") /\ C13_Ignorable(ray, Clip(ray))) => ret.val = 0

\* The same away from the origin: some end point has a nonzero coordinate.
C13_DegenerateOffOriginIsZero ==
    (/\ Returned("integrateDensity") /\ C13_Ignorable(ray, Clip(ray))
     /\ rayIntersect(ray).hit =>
            MaxComp(RayAt(ray, Clip(ray).mint), RayAt(ray, Clip(ray).maxt)) > 0)
        => ret.val = 0

C13_AtOrigin ==
    /\ Returned("integrateDensity")
    /\ ray.ox = 0 /\ ray.oy = 0 /\ ray.mint = 0 /\ ray.maxt = 0
    /\ IsNaN(ret.val)

\* sampleDistance enters its tracking loop with t at the clipped mint.
C14_Started ==
    (pc = "idle" /\ pc' = "tracking" /\ op' = "sampleDistance") =>
        /\ loc'.t = Clip(ray').mint
        /\ loc'.maxt = Clip(ray').maxt

\* One iteration with the variates xi1, xi2 and the proposal t: a proposal
\* at or past maxt returns false after one draw; one short of maxt draws the
\* acceptance variate, returns true with mRec.t = t when it is accepted and
\* goes on from t when it is rejected.
C14_Outcome(xi2, t) ==
    /\ loc'.t = t
    /\ IF FGe(t, loc.maxt)
       THEN pc' = "done" /\ ~ret'.ok /\ draws' = draws + 1
       ELSE /\ draws' = draws + 2
            /\ IF Accepts(ray, t, xi2)
               THEN pc' = "done" /\ ret'.ok /\ mRec'.t = t
               ELSE pc' = "tracking" /\ mRec' = mRec

C14_Iteration(advances) ==
    (pc = "tracking" /\ op = "sampleDistance") =>
        \E xi1 \in Xi, xi2 \in Xi :
            /\ C14_Outcome(xi2, Propose(loc.t, xi1))
            /\ advances => FGe(Propose(loc.t, xi1), loc.t)

\* C14 as stated: Woodcock sampleDistance starts at the clipped mint, every
\* proposal is t - ln(1 - xi)/majorant and never below the one before, the
\* first proposal at or past maxt returns false, the acceptance variate is
\* drawn only short of maxt, the first acceptance returns true, and a
\* rejection continues from the rejected t.
C14_DeltaTracking == [][C14_Started /\ C14_Iteration(TRUE)]_vars

\* C14 where the majorant is positive.
C14_DeltaTrackingPositiveMajorant ==
    [][C14_Started /\ C14_Iteration(m_maxDensity > 0)]_vars

\* A proposal was rejected and the next one was made from it.
C14_Witness ==
    /\ op = "sampleDistance" /\ m_method = "woodcock" /\ pc = "done" /\ ret.ok
    /\ draws = 4 /\ mRec.t = loc.t /\ loc.t > loc.mint /\ loc.t < loc.maxt

\* C15 as stated: after every sampleDistance under Woodcock tracking, true
\* or false, pdfSuccess, pdfFailure, transmittance and pdfSuccessRev are
\* exactly 1.0.
C15_SentinelsAreOne ==
    (Returned("sampleDistance") /\ m_method = "woodcock") =>
        /\ mRec.pdfSuccess = One /\ mRec.pdfFailure = One
        /\ mRec.pdfSuccessRev = One /\ mRec.transmittance = One

\* C15 amended: pdfSuccess, pdfFailure and pdfSuccessRev are exactly 1.0
\* after every call; transmittance is exactly 1.0 when the call returns
\* false and albedo/sigmaS when it returns true.
C15_SentinelsButTransmittance ==
    (Returned("sampleDistance") /\ m_method = "woodcock") =>
        /\ mRec.pdfSuccess = One /\ mRec.pdfFailure = One
        /\ mRec.pdfSuccessRev = One
        /\ mRec.transmittance =
               IF ret.ok THEN FDiv(m_albedo, mRec.sigmaS) ELSE One

C15_Witness ==
    /\ Returned("sampleDistance") /\ m_method = "woodcock" /\ ret.ok
    /\ mRec.pdfSuccess = One /\ mRec.transmittance = One \div 8

\* C16: the proposal loops of Woodcock sampleDistance and getTransmittance
\* exit after finitely many iterations for every sequence of variates.  t
\* takes finitely many values and the loop state is (run, t), so this is:
\* no iteration that stays in the loop leaves the run and t as they were
\* (the same variates would then repeat it for ever).
C16_EveryIterationAdvances ==
    [][(pc = "tracking" /\ pc' = "tracking") =>
           (loc'.i # loc.i \/ FGt(loc'.t, loc.t))]_vars

\* The loop of sampleDistance with t = NaN, which no variate leaves.
C16_Trapped ==
    /\ pc = "tracking" /\ op = "sampleDistance" /\ IsNaN(loc.t) /\ draws > 2
    /\ \A xi1 \in Xi, xi2 \in Xi :
           /\ IsNaN(Propose(loc.t, xi1))
           /\ ~FGe(Propose(loc.t, xi1), loc.maxt)
           /\ ~Accepts(ray, Propose(loc.t, xi1), xi2)

\* The step of the march of invertDensityIntegral: length/nSteps.
C17_StepSize(length) == FDiv(length, FInt(InvertSteps(length)))

\* The march step i = n covers [mint + n*stepSize, mint + (n+1)*stepSize].
C17_InStep(t, mint, stepSize, n) ==
    /\ FGe(t, FAdd(mint, FMul(stepSize, FInt(n))))
    /\ FLe(t, FAdd(FAdd(mint, FMul(stepSize, FInt(n))), stepSize))

C19_FailureZeroesOutputs ==
    (Returned("invertDensityIntegral") /\ ~inv.ok) =>
        inv.t = 0 /\ inv.densityAtT = 0

\* What the code does on failure: densityAtT is 0, t is the caller's value.
C19_FailureKeepsT ==
    (Returned("invertDensityIntegral") /\ ~inv.ok) =>
        inv.t = mRec0.t /\ inv.densityAtT = 0

C19_StaleT ==
    /\ Returned("invertDensityIntegral") /\ ~inv.ok /\ inv.how = "none"
    /\ rayIntersect(ray).hit /\ inv.integratedDensity > 0
    /\ inv.t = -One /\ inv.densityAtT = 0

\* The four cases in which C20 says configure() fails.
C20_Case(sc) ==
    \/ ~sc.density
    \/ ~sc.albedo
    \/ /\ sc.stepSize = 0
       /\ sc.densityStep = PInf /\ sc.albedoStep = PInf
       /\ sc.orientation => sc.orientationStep = PInf
    \/ sc.anisotropic /\ ~sc.orientation

\* C20: configure() fails fatally when there is no density volume, no
\* albedo volume, no step size given and none of the volumes reporting a
\* finite one, or an anisotropic phase function without an orientation
\* volume; in every other case it completes and the medium is configured.
C20_ConfigureFailsExactlyWhen ==
    pc # "unconfigured" =>
        /\ fatal <=> C20_Case(scene)
        /\ pc = "failed" <=> fatal
        /\ ~fatal =>
               /\ IsFin(m_stepSize) /\ m_stepSize > 0
               /\ m_maxDensity = FMul(m_densityMultiplier, Maximum(m_density))
               /\ m_invMaxDensity = FDiv(One, m_maxDensity)
               /\ m_anisotropicMedium = scene.anisotropic

\* No step size could be inferred, and nothing else was wrong.
C20_Witness ==
    /\ pc = "failed" /\ fatal
    /\ scene.density /\ scene.albedo /\ scene.orientation /\ scene.anisotropic
    /\ scene.stepSize = 0 /\ m_stepSize = PInf

\* The natural step sizes of the volumes of a scene, and the least of them.
C21_NaturalSteps(sc) ==
    {sc.densityStep, sc.albedoStep}
        \cup (IF sc.orientation THEN {sc.orientationStep} ELSE {})

C21_Least(S) == CHOOSE s \in S : \A u \in S : s <= u

\* C21: configure() leaves a non-zero 'stepSize' property as m_stepSize;
\* when the property is 0 it sets m_stepSize to the least natural step size
\* of the density, the albedo and, when present, the orientation volume.
\* (With a volume missing configure() throws before it reaches the step.)
C21_StepSizeResolved ==
    (pc # "unconfigured" /\ scene.density /\ scene.albedo) =>
        m_stepSize = IF scene.stepSize # 0 THEN scene.stepSize
                     ELSE C21_Least(C21_NaturalSteps(scene))

\* The orientation volume alone has the finest resolution.
C21_Witness ==
    /\ pc = "idle" /\ scene.stepSize = 0 /\ scene.orientation
    /\ scene.densityStep = One /\ scene.albedoStep = PInf
    /\ scene.orientationStep = Half /\ m_stepSize = Half

\* The value C22 gives for lookupDensity(p, d) with the base lookup base.
C22_Value(base, orientation, d) ==
    IF ~m_anisotropicMedium \/ base = 0 THEN base
    ELSE IF orientation = <<0, 0>> THEN 0
    ELSE FMul(base, SigmaDir(FAdd(FMul(d[1], orientation[1]),
                                  FMul(d[2], orientation[2]))))

\* C22: lookupDensity returns the base lookup unchanged, without reading
\* the orientation volume, when the medium is isotropic or the base is 0;
\* on an anisotropic medium with a non-zero base it returns
\* base * sigmaDir(dot(d, orientation(p))) where the orientation is not the
\* zero vector and exactly 0 where it is.
C22_LookupDensity ==
    Returned("lookupDensity") =>
        /\ ret.val = C22_Value(lookupFloat(loc.p), lookupVector(loc.p), loc.d)
        /\ (~m_anisotropicMedium \/ lookupFloat(loc.p) = 0)
               => ~loc.orientationRead

\* A non-zero base density at a point where the orientation is zero.
C22_Witness ==
    /\ Returned("lookupDensity") /\ m_anisotropicMedium
    /\ lookupFloat(loc.p) = FInt(4) /\ lookupVector(loc.p) = <<0, 0>>
    /\ loc.orientationRead /\ ret.val = 0

\* n = 2 * ceil(L / (2 * stepSize)).
C24_N(length) ==
    2 * ToUInt32(FCeil(FDiv(length, FMul(FInt(2), m_stepSize))))

\* The weights 1, 4, 2, 4, ..., 4, 1 of the nodes 0 .. n.
C24_Weight(i, n) == IF i = 0 \/ i = n THEN 1 ELSE IF i % 2 = 1 THEN 4 ELSE 2

\* Node i of n: mint + i * h, the last one being the end of the segment.
C24_Node(r, mint, maxt, h, n, i) ==
    RayAt(r, IF i = n THEN maxt ELSE FAdd(mint, FMul(h, FInt(i))))

\* The weighted sum over the nodes i .. n.
RECURSIVE C24_Sum(_, _, _, _, _, _)
C24_Sum(r, mint, maxt, h, n, i) ==
    IF i > n THEN 0
    ELSE FAdd(FMul(FInt(C24_Weight(i, n)),
                   lookupDensity(C24_Node(r, mint, maxt, h, n, i), RayD)),
              C24_Sum(r, mint, maxt, h, n, i + 1))

C24_Simpson(r, mint, maxt, h, n) ==
    FMul(FMul(C24_Sum(r, mint, maxt, h, n, 0), FDiv(h, FInt(3))),
         m_densityMultiplier)

C24_Formula(r, length, n) ==
    /\ n % 2 = 0 /\ n >= 2 /\ IntegrateSteps(length) = n
    /\ Near(ret.val, C24_Simpson(r, SegMin(r), SegMax(r),
                                 FDiv(length, FInt(n)), n))

\* C24: when the early exit does not fire, integrateDensity on a clipped
\* segment of length L > 0 returns the composite Simpson sum over the n + 1
\* equally spaced nodes, n = 2 * ceil(L / (2 * stepSize)), with the weights
\* 1, 4, 2, ..., 4, 1, times (L/n)/3 times the density multiplier (up to
\* the rounding of the products), and the code's ceil(L / stepSize) made
\* even is that n.
C24_CompositeSimpson ==
    (Returned("integrateDensity") /\ HasSegment(ray) /\ IsFin(ret.val)) =>
        C24_Formula(ray, SegLength(ray), C24_N(SegLength(ray)))

\* Four sub-intervals over two cells of different density.
C24_Witness ==
    /\ Returned("integrateDensity") /\ HasSegment(ray) /\ IsFin(ret.val)
    /\ C24_N(SegLength(ray)) = 4 /\ m_density[0] = One /\ m_density[1] = FInt(4)
    /\ ray.ox = 0 /\ ray.mint = Half /\ ret.val > One

\* The Simpson total of the march step j alone: nodes at the start, the
\* middle and the end of [mint + j*h, mint + (j+1)*h].
C25_Step(r, mint, h, j) ==
    FMul(FMul(FMul(Sixth, h), m_densityMultiplier),
         FAdd(FAdd(lookupDensity(RayAt(r, FAdd(mint, FMul(h, FInt(j)))), RayD),
                   FMul(lookupDensity(
                            RayAt(r, FAdd(FAdd(mint, FMul(h, FInt(j))),
                                          FMul(h, Half))), RayD),
                        FInt(4))),
              lookupDensity(RayAt(r, FAdd(FAdd(mint, FMul(h, FInt(j))), h)),
                            RayD)))

\* The running total at the end of step j.
RECURSIVE C25_Total(_, _, _, _)
C25_Total(r, mint, h, j) ==
    IF j < 0 THEN 0
    ELSE FAdd(C25_Total(r, mint, h, j - 1), C25_Step(r, mint, h, j))

C25_FirstStep(r, mint, h, k) ==
    /\ C17_InStep(inv.t, mint, h, k)
    /\ FGe(C25_Total(r, mint, h, k), desired)
    /\ \A j \in 0 .. (k - 1) : FLt(C25_Total(r, mint, h, j), desired)

\* C25: when invertDensityIntegral succeeds, t = mint + k*stepSize + x with
\* 0 <= x <= stepSize, where k is the least march step at whose end the
\* running Simpson total is >= the target.
C25_SolutionInFirstStep ==
    (Returned("invertDensityIntegral") /\ inv.ok) =>
        C25_FirstStep(ray, SegMin(ray), C17_StepSize(SegLength(ray)), inv.i)

\* A solution in the second step of the march.
C25_Witness ==
    /\ Returned("invertDensityIntegral") /\ inv.ok /\ inv.i = 1
    /\ desired > 0
    /\ inv.t > FAdd(SegMin(ray), C17_StepSize(SegLength(ray)))

\* One pass of the solve: the bracket lies in [0, stepSize], is not empty,
\* and the residual is evaluated strictly inside it.
C26_Inside(e, stepSize) ==
    /\ FLe(0, e.a) /\ FLt(e.a, e.b) /\ FLe(e.b, stepSize)
    /\ FLt(e.a, e.x) /\ FLt(e.x, e.b)

\* From one pass to the next one end of the bracket moves to x.
C26_Shrinks(e, f) ==
    \/ f.a = e.a /\ f.b = e.x
    \/ f.a = e.x /\ f.b = e.b

\* C26: throughout the Newton-Bisection solve 0 <= a < b <= stepSize and
\* every x at which the residual is evaluated has a < x < b; the bracket
\* only shrinks, one end moving to x.
C26_BracketInvariant ==
    Returned("invertDensityIntegral") =>
        /\ \A n \in 1 .. Len(inv.solve) :
               C26_Inside(inv.solve[n], C17_StepSize(SegLength(ray)))
        /\ \A n \in 1 .. (Len(inv.solve) - 1) :
               C26_Shrinks(inv.solve[n], inv.solve[n + 1])

\* A pass of the solve whose bracket is two neighbouring representable
\* numbers away from 0, and whose midpoint was rounded onto the upper end.
C26_MidpointOnB ==
    /\ Returned("invertDensityIntegral")
    /\ \E n \in 1 .. Len(inv.solve) :
           /\ inv.solve[n].a > 0
           /\ inv.solve[n].b = inv.solve[n].a + 1
           /\ inv.solve[n].x = inv.solve[n].b

\* The three lookups of march step i, spaced half a step apart, as the
\* Newton-Bisection loop reads them.
C27_Fit(r, mint, h, i) ==
    [temp |-> FDiv(m_densityMultiplier, FMul(h, h)),
     node1 |-> lookupDensity(RayAt(r, FAdd(mint, FMul(h, FInt(i)))), RayD),
     node2 |-> lookupDensity(RayAt(r, FAdd(FAdd(mint, FMul(h, FInt(i))),
                                           FMul(h, Half))), RayD),
     node3 |-> lookupDensity(RayAt(r, FAdd(FAdd(mint, FMul(h, FInt(i))), h)),
                             RayD),
     stepSize |-> h, stepSizeSqr |-> FMul(h, h)]

\* The fitted quadratic at the reported t.
C27_Quadratic(r, mint, h, i) ==
    Lagrange(C27_Fit(r, mint, h, i),
             FSub(inv.t, FAdd(mint, FMul(h, FInt(i)))))

\* The field itself at ray(t), scaled as the densities the function reports.
C27_FieldAtT == FMul(lookupDensity(RayAt(ray, inv.t), RayD), m_densityMultiplier)

\* C27: once the march of invertDensityIntegral has found the step i whose
\* running total meets the target, no more lookups are made (one before the
\* march and two per step up to step i are all there are), and the densityAtT
\* of a success is the quadratic fitted to the three lookups of that step,
\* evaluated at the converged x.
C27_NoLookupAfterTheStep ==
    (Returned("invertDensityIntegral") /\ inv.how \in {"converged", "stuck"})
        => /\ inv.lookups = 1 + 2 * (inv.i + 1)
           /\ inv.ok => inv.densityAtT =
                  C27_Quadratic(ray, SegMin(ray),
                                C17_StepSize(SegLength(ray)), inv.i)

\* A success in the second march step whose densityAtT is not what the
\* field holds at ray(t).
C27_Witness ==
    /\ Returned("invertDensityIntegral") /\ inv.ok /\ inv.i = 1
    /\ inv.lookups = 5
    /\ inv.densityAtT # C27_FieldAtT

\* getTransmittance under Woodcock tracking with a sampler.
C28_Tracking == op = "getTransmittance" /\ ~UsesQuadrature(hasSampler)

\* What holds of the runs made so far: loc.i runs have ended, each has added
\* 0 or 1 to result, and a run that has not yet drawn starts at the clipped
\* mint.
C28_Runs ==
    (C28_Tracking /\ pc = "tracking") =>
        /\ loc.i \in 0 .. (nSamples - 1)
        /\ loc.mint = SegMin(ray) /\ loc.maxt = SegMax(ray)
        /\ loc.result \in {FInt(n) : n \in 0 .. loc.i}

\* The end of a run: the run that ends adds 1 when its last proposal has
\* reached maxt (one value drawn, no acceptance test) and 0 when the proposal
\* stayed before maxt and was accepted (two values drawn); the next run
\* starts at the clipped mint.
C28_RunEnds ==
    (C28_Tracking /\ pc = "tracking" /\ loc'.i # loc.i) =>
        /\ loc'.i = loc.i + 1
        /\ \/ /\ loc'.result = FAdd(loc.result, One)
              /\ draws' = draws + 1
              /\ \E xi \in Xi : FGe(Propose(loc.t, xi), loc.maxt)
           \/ /\ loc'.result = loc.result
              /\ draws' = draws + 2
              /\ \E xi1 \in Xi, xi2 \in Xi :
                     /\ ~FGe(Propose(loc.t, xi1), loc.maxt)
                     /\ Accepts(ray, Propose(loc.t, xi1), xi2)
        /\ pc' = "tracking" => loc'.t = SegMin(ray)
        /\ pc' = "done" <=> loc'.i = nSamples

\* The result is the sum of the contributions over nSamples.
C28_Result ==
    /\ ret.val = FDiv(loc.result, FInt(nSamples))
    /\ ret.val \in {0, Half, One}

C29_Extinction == FAdd(mRec.sigmaS, mRec.sigmaA)

\* C29: whenever sampleDistance returns true, under either strategy,
\* mRec.pdfSuccess > 0 and the extinction sigmaS + sigmaA reported at the
\* collision is strictly positive.
C29_CollisionHasExtinction ==
    (Returned("sampleDistance") /\ ret.ok) =>
        /\ FGt(mRec.pdfSuccess, 0)
        /\ FGt(C29_Extinction, 0)

\* A collision found by the Simpson branch in a cell of density 4.
C29_Witness ==
    /\ Returned("sampleDistance") /\ ret.ok /\ m_method = "simpson"
    /\ C29_Extinction > FInt(4)
    /\ mRec.pdfSuccess > 0 /\ mRec.pdfSuccess < One

\* What pdfDistance writes for the ray of the running query.
C30_Pdf == pdfDistance(ray, mRec0).rec

\* sampleDistance under Simpson quadrature has returned false.
C30_NoCollision ==
    Returned("sampleDistance") /\ m_method = "simpson" /\ ~ret.ok

\* Equal but for the rounding of the two sums.
C30_Equal(a, b) == IsFin(a) /\ IsFin(b) /\ FAbs(FSub(a, b)) <= RoundOff \div 16

\* C30: under Simpson quadrature, for every ray on which sampleDistance
\* finds no collision, the pdfFailure and the transmittance it writes equal
\* those pdfDistance writes for the same ray.
C30_FailureMatchesPdfDistance ==
    C30_NoCollision =>
        /\ C30_Equal(mRec.pdfFailure, C30_Pdf.pdfFailure)
        /\ C30_Equal(mRec.transmittance, C30_Pdf.transmittance)

\* The march of sampleDistance ran through a segment whose optical depth is
\* above -ln(Epsilon) and below the target: it writes exp(-optical depth),
\* while integrateDensity left early with +infinity and pdfDistance writes 0.
C30_EarlyExitDiffers ==
    /\ C30_NoCollision /\ inv.how = "none"
    /\ FGt(inv.integratedDensity, StopAfterDensity)
    /\ integrateDensity(ray) = PInf
    /\ mRec.pdfFailure > RoundOff \div 16 /\ mRec.transmittance = mRec.pdfFailure
    /\ C30_Pdf.pdfFailure = 0 /\ C30_Pdf.transmittance = 0

=============================================================================
